---- MODULE Spec2Model ----
(***************************************************************************)
(* A model of jakewright/patch: the send pipeline of Client (client.go,    *)
(* request.go), the Future that completes it (future.go) and the           *)
(* replayable body and decode dispatch of Response (response.go).          *)
(***************************************************************************)
EXTENDS Integers, Sequences, FiniteSets, TLC

\* ------------------------------------------------------------------ bounds
\* Longest transport stream of a response body.
MaxBody == 2
\* Most decode targets handed to one Decode/DecodeJSON/DecodeUsing call.
MaxTargets == 3
\* Most direct reads of Response.Body the caller makes on one Response.
MaxReads == 2
\* Sends issued on one Client.
NumSends == 2

Statuses == {200, 404, 500}
ContentTypes == {"application/json", "text/unknown"}

\* The body content of n bytes: the bytes 1, 2, .., n.
Content(n) == [i \in 1 .. n |-> i]

RECURSIVE SeqsUpTo(_, _)
SeqsUpTo(S, n) ==
    IF n = 0 THEN {<<>>}
    ELSE LET shorter == SeqsUpTo(S, n - 1)
         IN shorter \cup {Append(s, x) : s \in {t \in shorter : Len(t) = n - 1}, x \in S}

Min(a, b) == IF a < b THEN a ELSE b

\* ------------------------------------------------------------------ errors
\* Go's nil error and the errors the modelled code can return.
NoErr == [kind |-> "nil"]
ErrRead == [kind |-> "read"]
ErrInferDecoder == [kind |-> "inferDecoder"]
DecodeError(k) == [kind |-> "decode", target |-> k]

\* ------------------------------------------------- the transport-level body
\* The stream the transport hands over as http.Response.Body: it delivers
\* content[1..limit] and then ends with EOF, or with a read error when broken.
StreamsOf(lengths) ==
    UNION {
      {[content |-> Content(n), pos |-> 0, limit |-> l, broken |-> b, closes |-> 0, reads |-> 0] :
          l \in (IF b THEN 0 .. n ELSE {n})}
      : n \in lengths, b \in BOOLEAN }

\* http.Response as the transport returns it: r.Body is the raw stream ("raw")
\* until BodyBytes replaces it by a *bufCloser ("buf").
HTTPResponses(lengths) ==
    {[StatusCode |-> s, ContentType |-> ct, Body |-> "raw", stream |-> st,
      buf |-> [data |-> <<>>, off |-> 0]] :
        s \in Statuses, ct \in ContentTypes, st \in StreamsOf(lengths)}

\* ioutil.ReadAll(io.TeeReader(rc, buf)): reads rc until EOF or an error and
\* returns what was read; the TeeReader writes every byte read into buf.
ReadAll(st) ==
    [data |-> SubSeq(st.content, st.pos + 1, st.limit),
     err |-> IF st.broken THEN ErrRead ELSE NoErr,
     st |-> [st EXCEPT !.pos = IF st.limit > st.pos THEN st.limit ELSE st.pos,
                       !.reads = @ + 1]]

\* bytes.Buffer.Bytes(): the unread portion of the buffer, buf[off:].
BufBytes(b) == SubSeq(b.data, b.off + 1, Len(b.data))

\* bytes.Buffer.Read(p) with len(p) = n > 0: an empty buffer is reset and
\* yields EOF, otherwise min(n, unread) bytes are consumed.
BufRead(b, n) ==
    IF b.off >= Len(b.data)
    THEN [b |-> [data |-> <<>>, off |-> 0], data |-> <<>>]
    ELSE LET m == Min(n, Len(b.data) - b.off)
         IN [b |-> [b EXCEPT !.off = @ + m], data |-> SubSeq(b.data, b.off + 1, b.off + m)]

\* One Read(p), len(p) = n > 0, on the raw transport stream.
StreamRead(st, n) ==
    LET m == IF st.limit > st.pos THEN Min(n, st.limit - st.pos) ELSE 0
    IN [st |-> [st EXCEPT !.pos = @ + m, !.reads = @ + 1],
        data |-> SubSeq(st.content, st.pos + 1, st.pos + m)]

\* BodyBytes without "r.Body = buf": the stream stays the body of the Response.
BodyBytesKeepsStream(h) ==
    LET rd == ReadAll(h.stream)
    IN [h |-> [h EXCEPT !.buf = [data |-> rd.data, off |-> 0],
                        !.stream = [rd.st EXCEPT !.closes = @ + 1]],
        bytes |-> rd.data,
        err |-> rd.err]

\* Response.BodyBytes: a *bufCloser body answers from the buffer; any other
\* body is replaced by a fresh bufCloser, read to its end through the tee and
\* closed (the deferred rc.Close()).
BodyBytes(h) ==
    IF h.Body = "buf"
    THEN [h |-> h, bytes |-> BufBytes(h.buf), err |-> NoErr]
    ELSE LET rd == ReadAll(h.stream)
         IN [h |-> [h EXCEPT !.Body = "buf",
                             !.buf = [data |-> rd.data, off |-> 0],
                             !.stream = [rd.st EXCEPT !.closes = @ + 1]],
             bytes |-> rd.data,
             err |-> rd.err]

\* Response.BodyString: string(b) keeps the bytes of b.
BodyString(h) == BodyBytes(h)

\* ------------------------------------------------------------ decode hooks
NilTarget == [type |-> "nil", hook |-> "", code |-> 0]
Value == [type |-> "value", hook |-> "", code |-> 0]
HookKinds == {"On2xx", "On4xx", "On5xx", "OnNon2xx", "OnStatus"}
HookTargets == {[type |-> "hook", hook |-> k, code |-> IF k = "OnStatus" THEN 404 ELSE 0] :
                  k \in HookKinds}
TargetKinds == {NilTarget, Value} \cup HookTargets
TargetLists == SeqsUpTo(TargetKinds, MaxTargets)

On2xx(v, status) == IF status >= 200 /\ status < 300 THEN v ELSE NilTarget
\* An On4xx without the upper end of its range.
On4xxOpen(v, status) == IF status >= 400 THEN v ELSE NilTarget
On4xx(v, status) == IF status >= 400 /\ status < 500 THEN v ELSE NilTarget
\* An On5xx without the upper end of its range.
On5xxOpen(v, status) == IF status >= 500 THEN v ELSE NilTarget
On5xx(v, status) == IF status >= 500 /\ status < 600 THEN v ELSE NilTarget
OnNon2xx(v, status) == IF status >= 200 /\ status < 300 THEN NilTarget ELSE v
OnStatus(status, v, s) == IF status = s THEN v ELSE NilTarget

\* A hook that yields its target at every status.
HookApplyAlways(t, status) == Value

\* v(r.StatusCode) for a target of type DecodeHook.
HookApply(t, status) ==
    CASE t.hook = "On2xx" -> On2xx(Value, status)
      [] t.hook = "On4xx" -> On4xx(Value, status)
      [] t.hook = "On5xx" -> On5xx(Value, status)
      [] t.hook = "OnNon2xx" -> OnNon2xx(Value, status)
      [] t.hook = "OnStatus" -> OnStatus(t.code, Value, status)

\* A Decoder double: dec.Decode(body, receiver) fails for the receivers at the
\* positions in dec.bad.
Decoders == {[bad |-> b] : b \in SUBSET (1 .. MaxTargets)}
DecoderDecode(dec, body, k) == IF k \in dec.bad THEN DecodeError(k) ELSE NoErr

\* inferDecoder(contentType): a decoder for a known content type, else an error.
InferDecoder(ct) == IF ct = "application/json" THEN NoErr ELSE ErrInferDecoder

Unset == [set |-> FALSE, bytes |-> <<>>]
NoDecode == [visited |-> <<>>, decoded |-> <<>>,
             vals |-> [k \in 1 .. MaxTargets |-> Unset], err |-> NoErr]

\* The loop of DecodeUsing without "return err": a failed decode is passed over.
RECURSIVE DecodeLoopNoStop(_, _, _, _, _, _)
DecodeLoopNoStop(dec, targets, status, body, k, acc) ==
    IF k > Len(targets) THEN acc
    ELSE LET t == targets[k]
             receiver == IF t.type = "hook" THEN HookApply(t, status) ELSE t
             seen == [acc EXCEPT !.visited = Append(@, k)]
         IN IF receiver = NilTarget
            THEN DecodeLoopNoStop(dec, targets, status, body, k + 1, seen)
            ELSE LET e == DecoderDecode(dec, body, k)
                     tried == [seen EXCEPT !.decoded = Append(@, [target |-> k, body |-> body])]
                 IN IF e /= NoErr
                    THEN DecodeLoopNoStop(dec, targets, status, body, k + 1,
                                          [tried EXCEPT !.err = e])
                    ELSE DecodeLoopNoStop(dec, targets, status, body, k + 1,
                                          [tried EXCEPT !.vals[k] = [set |-> TRUE, bytes |-> body]])

\* The loop of DecodeUsing from target k on: a hook is evaluated at the status,
\* a nil receiver is skipped, the first decode error ends the loop.
RECURSIVE DecodeLoop(_, _, _, _, _, _)
DecodeLoop(dec, targets, status, body, k, acc) ==
    IF k > Len(targets) THEN acc
    ELSE LET t == targets[k]
             receiver == IF t.type = "hook" THEN HookApply(t, status) ELSE t
             seen == [acc EXCEPT !.visited = Append(@, k)]
         IN IF receiver = NilTarget
            THEN DecodeLoop(dec, targets, status, body, k + 1, seen)
            ELSE LET e == DecoderDecode(dec, body, k)
                     tried == [seen EXCEPT !.decoded = Append(@, [target |-> k, body |-> body])]
                 IN IF e /= NoErr
                    THEN [tried EXCEPT !.err = e]
                    ELSE DecodeLoop(dec, targets, status, body, k + 1,
                                    [tried EXCEPT !.vals[k] = [set |-> TRUE, bytes |-> body]])

\* Response.DecodeUsing.
DecodeUsing(h, dec, targets) ==
    LET bb == BodyBytes(h)
    IN IF bb.err /= NoErr
       THEN [h |-> bb.h, bytes |-> bb.bytes, bodyErr |-> bb.err,
             res |-> [NoDecode EXCEPT !.err = bb.err]]
       ELSE [h |-> bb.h, bytes |-> bb.bytes, bodyErr |-> NoErr,
             res |-> DecodeLoop(dec, targets, h.StatusCode, bb.bytes, 1, NoDecode)]

\* Response.Decode: dec is the behaviour of the decoder inferDecoder picks.
Decode(h, dec, targets) ==
    IF InferDecoder(h.ContentType) /= NoErr
    THEN [h |-> h, bytes |-> <<>>, bodyErr |-> NoErr,
          res |-> [NoDecode EXCEPT !.err = ErrInferDecoder]]
    ELSE DecodeUsing(h, dec, targets)

\* Response.DecodeJSON: dec is the behaviour of jsonDecoder.
DecodeJSON(h, dec, targets) == DecodeUsing(h, dec, targets)

\* ------------------------------------------------------------- the request
InvalidMethodError(method) == [kind |-> "InvalidMethod", method |-> method]
URLParseError(u) == [kind |-> "URLParse", url |-> u]
ErrNoEncoder == [kind |-> "NoEncoder"]
ErrEncode == [kind |-> "Encode"]
ErrTransport == [kind |-> "Transport"]
BadStatusError(status) == [kind |-> "BadStatus", code |-> status]

\* A validMethod that also takes the lower-case spelling of GET.
validMethodAnyCase(method) ==
    method \in {"GET", "get", "HEAD", "POST", "PUT", "PATCH", "DELETE", "CONNECT", "OPTIONS",
                "TRACE"}

\* validMethod: the switch over the nine http.Method* constants.
validMethod(method) ==
    CASE method = "GET" -> TRUE
      [] method = "HEAD" -> TRUE
      [] method = "POST" -> TRUE
      [] method = "PUT" -> TRUE
      [] method = "PATCH" -> TRUE
      [] method = "DELETE" -> TRUE
      [] method = "CONNECT" -> TRUE
      [] method = "OPTIONS" -> TRUE
      [] method = "TRACE" -> TRUE
      [] OTHER -> FALSE

\* Request.validate.
validate(rq) == IF ~validMethod(rq.Method) THEN InvalidMethodError(rq.Method) ELSE NoErr

\* Encoders: nil, the two the package ships and a custom one whose Encode fails.
NilEncoder == [name |-> "nil", contentType |-> "", fails |-> FALSE]
EncoderJSON == [name |-> "EncoderJSON", contentType |-> "application/json; charset=utf-8",
                fails |-> FALSE]
EncoderFormURL == [name |-> "EncoderFormURL",
                   contentType |-> "application/x-www-form-urlencoded", fails |-> FALSE]
EncoderFailing == [name |-> "custom", contentType |-> "text/custom", fails |-> TRUE]

\* A prepareBody that prefers the client's default encoder to the request's.
prepareBodyDefaultFirst(rq, defaultEncoder) ==
    IF rq.Body = "nil"
    THEN [reader |-> FALSE, contentType |-> "", err |-> NoErr, encoded |-> FALSE]
    ELSE LET enc == IF defaultEncoder = NilEncoder THEN rq.Encoder ELSE defaultEncoder
         IN IF enc = NilEncoder
            THEN [reader |-> FALSE, contentType |-> "", err |-> ErrNoEncoder, encoded |-> FALSE]
            ELSE IF enc.fails
                 THEN [reader |-> FALSE, contentType |-> "", err |-> ErrEncode, encoded |-> TRUE]
                 ELSE [reader |-> TRUE, contentType |-> enc.contentType, err |-> NoErr,
                       encoded |-> TRUE]

\* Request.prepareBody: no body, no encoder call; else the request's encoder,
\* else the default one; encoded tells that enc.Encode was called.
prepareBody(rq, defaultEncoder) ==
    IF rq.Body = "nil"
    THEN [reader |-> FALSE, contentType |-> "", err |-> NoErr, encoded |-> FALSE]
    ELSE LET enc == IF rq.Encoder = NilEncoder THEN defaultEncoder ELSE rq.Encoder
         IN IF enc = NilEncoder
            THEN [reader |-> FALSE, contentType |-> "", err |-> ErrNoEncoder, encoded |-> FALSE]
            ELSE IF enc.fails
                 THEN [reader |-> FALSE, contentType |-> "", err |-> ErrEncode, encoded |-> TRUE]
                 ELSE [reader |-> TRUE, contentType |-> enc.contentType, err |-> NoErr,
                       encoded |-> TRUE]

\* http.Header: a nil map, or a map from header names to values.
EmptyMap == [k \in {} |-> ""]
NilHeaders == [isNil |-> TRUE, m |-> EmptyMap]
HeaderMap(m) == [isNil |-> FALSE, m |-> m]
\* Header.Get: "" for an absent key.
HeaderGet(h, key) == IF key \in DOMAIN h.m THEN h.m[key] ELSE ""
\* Header.Set.
HeaderSet(h, key, value) ==
    [h EXCEPT !.m = [k \in DOMAIN h.m \cup {key} |-> IF k = key THEN value ELSE h.m[k]]]

\* ----------------------------------------------------------------- the URL
\* url.Parse: "%zz" (a bad escape) is the malformed URL.
ParseOK(u) == u /= "%zz"
\* base.ResolveReference(ref).String(): the relative reference users/1 is
\* merged with the base; any other reference here stands as it is.
ResolveReference(base, ref) ==
    IF base = "http://example.com/api/" /\ ref = "users/1"
    THEN "http://example.com/api/users/1"
    ELSE ref

\* ---------------------------------------------------------------- the client
Validators == {"nil", "DefaultStatusValidator", "Below500"}
\* c.StatusValidator(status) for a validator that is set.
RunValidator(v, status) ==
    CASE v = "DefaultStatusValidator" -> status >= 200 /\ status < 300
      [] v = "Below500" -> status < 500

\* NewFromBaseClient: the defaults, overridden by the options.
DefaultClient ==
    [BaseURL |-> "", DefaultEncoder |-> EncoderJSON, StatusValidator |-> "DefaultStatusValidator"]
WithBaseURL(c, url) == [c EXCEPT !.BaseURL = url]
WithStatusValidator(c, f) == [c EXCEPT !.StatusValidator = f]
WithEncoder(c, enc) == [c EXCEPT !.DefaultEncoder = enc]
Clients ==
    {WithEncoder(WithStatusValidator(WithBaseURL(DefaultClient, u), f), enc) :
        u \in {"", "http://example.com/api/", "%zz"},
        f \in Validators,
        enc \in {NilEncoder, EncoderJSON}}

Requests ==
    {[Method |-> method, URL |-> u, Headers |-> h, Body |-> b, Encoder |-> enc] :
        method \in {"GET", "BREW"},
        u \in {"users/1", "%zz"},
        h \in {NilHeaders, HeaderMap([k \in {"Accept"} |-> "*/*"]),
               HeaderMap([k \in {"Content-Type"} |-> "text/plain"])},
        b \in {"nil", "homer"},
        enc \in {NilEncoder, EncoderFormURL, EncoderFailing}}

\* The method each per-verb helper puts in its Request.
Verbs == {"Get", "Post", "Put", "Patch", "Delete"}
VerbMethod(verb) ==
    CASE verb = "Get" -> "GET"
      [] verb = "Post" -> "POST"
      [] verb = "Put" -> "PUT"
      [] verb = "Patch" -> "PATCH"
      [] verb = "Delete" -> "DELETE"

\* ------------------------------------------------------------ the transport
\* *http.Response nil, and the pointers to Response that send returns.
NilHTTP == [StatusCode |-> 0, ContentType |-> "", Body |-> "nil"]
NilPtr == [ptr |-> "nil"]
Ref(i) == [ptr |-> "Response", id |-> i]

\* What BaseClient.Do returns: a transport error, or one of these responses.
TransportResponses ==
    {h \in HTTPResponses({MaxBody}) :
        \/ h.ContentType = "application/json" /\ ~h.stream.broken
        \/ h.StatusCode = 200 /\ h.ContentType = "application/json"
              /\ h.stream.limit = MaxBody - 1
        \/ h.StatusCode = 200 /\ h.ContentType = "text/unknown" /\ ~h.stream.broken}
TransportOutcomes ==
    {[rsp |-> NilHTTP, err |-> ErrTransport]} \cup
    {[rsp |-> h, err |-> NoErr] : h \in TransportResponses}

\* Client.Do returning no response with the bad-status error.
DoDropsResponse(c, out) ==
    IF out.err /= NoErr
    THEN [rsp |-> NilHTTP, err |-> out.err]
    ELSE IF c.StatusValidator /= "nil" /\ ~RunValidator(c.StatusValidator, out.rsp.StatusCode)
         THEN [rsp |-> NilHTTP, err |-> BadStatusError(out.rsp.StatusCode)]
         ELSE [rsp |-> out.rsp, err |-> NoErr]

\* Client.Do after BaseClient.Do has returned out.
Do(c, out) ==
    IF out.err /= NoErr
    THEN [rsp |-> NilHTTP, err |-> out.err]
    ELSE IF c.StatusValidator /= "nil" /\ ~RunValidator(c.StatusValidator, out.rsp.StatusCode)
         THEN [rsp |-> out.rsp, err |-> BadStatusError(out.rsp.StatusCode)]
         ELSE [rsp |-> out.rsp, err |-> NoErr]

\* ------------------------------------------------------- the per-verb helper
\* A per-verb helper after c.Send(r).Response() returned (rsp, err), where h is
\* the http.Response rsp wraps: it decodes into v on success only.
NoHelperResult == [returned |-> FALSE, rsp |-> NilPtr, err |-> NoErr, decodeCalled |-> FALSE,
                   res |-> NoDecode]
\* A helper that decodes into v whenever a response was received.
HelperResultAlwaysDecodes(rsp, err, h, v, dec) ==
    IF v /= NilTarget /\ h /= NilHTTP
    THEN LET d == Decode(h, dec, <<v>>)
         IN [h |-> d.h,
             out |-> [returned |-> TRUE, rsp |-> rsp,
                      err |-> IF err /= NoErr THEN err ELSE d.res.err,
                      decodeCalled |-> TRUE, res |-> d.res]]
    ELSE [h |-> h,
          out |-> [returned |-> TRUE, rsp |-> rsp, err |-> err, decodeCalled |-> FALSE,
                   res |-> NoDecode]]

HelperResult(rsp, err, h, v, dec) ==
    IF err /= NoErr
    THEN [h |-> h,
          out |-> [returned |-> TRUE, rsp |-> rsp, err |-> err, decodeCalled |-> FALSE,
                   res |-> NoDecode]]
    ELSE IF v /= NilTarget
         THEN LET d == Decode(h, dec, <<v>>)
              IN [h |-> d.h,
                  out |-> [returned |-> TRUE, rsp |-> rsp, err |-> d.res.err,
                           decodeCalled |-> TRUE, res |-> d.res]]
         ELSE [h |-> h,
               out |-> [returned |-> TRUE, rsp |-> rsp, err |-> NoErr, decodeCalled |-> FALSE,
                        res |-> NoDecode]]

\* ------------------------------------------------------------------- state
VARIABLES
    r,          \* the Response whose body is read (its embedded http.Response)
    last,       \* the last call made on r and what it returned
    directRaw,  \* direct reads of r.Body made while it was the transport stream
    directBuf,  \* direct reads of r.Body made after the buffer replaced it
    decoder,    \* the Decoder the caller's Decode* calls go through
    args,       \* the targets the caller hands to its Decode* calls
    client,     \* the Client: BaseURL, DefaultEncoder, StatusValidator
    request,    \* request[i]: the caller's Request of send i
    via,        \* via[i]: "Send", or the per-verb helper that made send i
    target,     \* target[i]: the helper's decode target v
    pc,         \* pc[i]: where the goroutine of send i stands
    loc,        \* loc[i]: the locals of c.send, and the steps it has run
    ftr,        \* ftr[i]: the Future of send i: done (closed), response, err
    closes,     \* closes[i]: how often close(done) ran
    resp,       \* resp[i]: the Response object send i allocated
    transportCalls, \* transportCalls[i]: calls of BaseClient.Do made by send i
    encoderCalls,   \* encoderCalls[i]: calls of Encoder.Encode made by send i
    waiting,    \* waiting[c]: the send whose Future caller c is blocked on, or 0
    observed,   \* observed[i]: the pairs that Response() calls on ftr[i] returned
    hres        \* hres[i]: what the per-verb helper of send i returned

bodyVars == <<r, last, directRaw, directBuf, decoder, args>>
sendVars == <<client, request, via, target, pc, loc, ftr, closes, resp, transportCalls,
              encoderCalls, waiting, observed, hres>>
vars == <<bodyVars, sendVars>>

\* The last call: what it was handed and what it returned; replayed tells that
\* it found the body already replaced by the buffer.
NoCall == [op |-> "none", replayed |-> FALSE, bytes |-> <<>>, bodyErr |-> NoErr,
           targets |-> <<>>, res |-> NoDecode]

InitCalls ==
    /\ last = NoCall
    /\ directRaw = 0
    /\ directBuf = 0

\* ------------------------------------------------------ the send: state
Sends == 1 .. NumSends
Callers == {"c1", "c2"}

NoRequest == [Method |-> "", URL |-> "", Headers |-> NilHeaders, Body |-> "nil",
              Encoder |-> NilEncoder]
NoOutcome == [rsp |-> NilHTTP, err |-> NoErr]
NoLocals == [path |-> "", reader |-> FALSE, contentType |-> "", header |-> NilHeaders,
             aliased |-> FALSE, out |-> NoOutcome, ret |-> [rsp |-> NilPtr, err |-> NoErr],
             steps |-> <<>>]
NoFuture == [done |-> FALSE, response |-> NilPtr, err |-> NoErr]
NoObject == [Response |-> NilHTTP, allocated |-> FALSE]

\* No send has been issued.
InitSends ==
    /\ request = [i \in Sends |-> NoRequest]
    /\ via = [i \in Sends |-> "Send"]
    /\ target = [i \in Sends |-> NilTarget]
    /\ pc = [i \in Sends |-> "idle"]
    /\ loc = [i \in Sends |-> NoLocals]
    /\ ftr = [i \in Sends |-> NoFuture]
    /\ closes = [i \in Sends |-> 0]
    /\ resp = [i \in Sends |-> NoObject]
    /\ transportCalls = [i \in Sends |-> 0]
    /\ encoderCalls = [i \in Sends |-> 0]
    /\ waiting = [c \in Callers |-> 0]
    /\ observed = [i \in Sends |-> {}]
    /\ hres = [i \in Sends |-> NoHelperResult]

\* No Response is being read outside a send.
InitNoBody ==
    /\ r = NilHTTP
    /\ decoder = [bad |-> {}]
    /\ args = <<>>
    /\ InitCalls

\* Body reading: every stream up to MaxBody bytes, one plain decode target.
InitBody ==
    /\ r \in HTTPResponses(0 .. MaxBody)
    /\ decoder \in {d \in Decoders : d.bad \subseteq {1}}
    /\ args = <<Value>>
    /\ InitCalls
    /\ client = DefaultClient
    /\ InitSends

\* Decode dispatch: every list of targets and every decoder, on a JSON response
\* of MaxBody bytes whose stream ends well or breaks before its last byte.
InitDecode ==
    /\ r \in {h \in HTTPResponses({MaxBody}) :
                /\ h.ContentType = "application/json"
                /\ h.stream.broken => h.stream.limit = MaxBody - 1}
    /\ decoder \in Decoders
    /\ args \in TargetLists
    /\ InitCalls
    /\ client = DefaultClient
    /\ InitSends

CallBodyBytes ==
    /\ LET bb == BodyBytes(r)
       IN /\ r' = bb.h
          /\ last' = [op |-> "BodyBytes", replayed |-> r.Body = "buf",
                      bytes |-> bb.bytes, bodyErr |-> bb.err,
                      targets |-> <<>>,
                      res |-> [NoDecode EXCEPT !.err = bb.err]]
    /\ UNCHANGED <<directRaw, directBuf, decoder, args>>
    /\ UNCHANGED sendVars

CallBodyString ==
    /\ LET bs == BodyString(r)
       IN /\ r' = bs.h
          /\ last' = [op |-> "BodyString", replayed |-> r.Body = "buf",
                      bytes |-> bs.bytes, bodyErr |-> bs.err,
                      targets |-> <<>>,
                      res |-> [NoDecode EXCEPT !.err = bs.err]]
    /\ UNCHANGED <<directRaw, directBuf, decoder, args>>
    /\ UNCHANGED sendVars

\* The caller reads r.Body itself: one Read of up to n bytes.
ReadBody(n) ==
    /\ directRaw + directBuf < MaxReads
    /\ IF r.Body = "buf"
       THEN /\ r' = [r EXCEPT !.buf = BufRead(r.buf, n).b]
            /\ directBuf' = directBuf + 1
            /\ UNCHANGED directRaw
       ELSE /\ r' = [r EXCEPT !.stream = StreamRead(r.stream, n).st]
            /\ directRaw' = directRaw + 1
            /\ UNCHANGED directBuf
    /\ UNCHANGED <<last, decoder, args>>
    /\ UNCHANGED sendVars

CallDecodeUsing ==
    /\ LET d == DecodeUsing(r, decoder, args)
       IN /\ r' = d.h
          /\ last' = [op |-> "DecodeUsing", replayed |-> r.Body = "buf",
                      bytes |-> d.bytes, bodyErr |-> d.bodyErr,
                      targets |-> args, res |-> d.res]
    /\ UNCHANGED <<directRaw, directBuf, decoder, args>>
    /\ UNCHANGED sendVars

CallDecode ==
    /\ LET d == Decode(r, decoder, args)
       IN /\ r' = d.h
          /\ last' = [op |-> "Decode", replayed |-> r.Body = "buf",
                      bytes |-> d.bytes, bodyErr |-> d.bodyErr,
                      targets |-> args, res |-> d.res]
    /\ UNCHANGED <<directRaw, directBuf, decoder, args>>
    /\ UNCHANGED sendVars

CallDecodeJSON ==
    /\ LET d == DecodeJSON(r, decoder, args)
       IN /\ r' = d.h
          /\ last' = [op |-> "DecodeJSON", replayed |-> r.Body = "buf",
                      bytes |-> d.bytes, bodyErr |-> d.bodyErr,
                      targets |-> args, res |-> d.res]
    /\ UNCHANGED <<directRaw, directBuf, decoder, args>>
    /\ UNCHANGED sendVars

NextBody ==
    \/ CallBodyBytes
    \/ CallBodyString
    \/ \E n \in 1 .. MaxBody : ReadBody(n)
    \/ CallDecodeUsing
    \/ CallDecode
    \/ CallDecodeJSON

SpecBody == InitBody /\ [][NextBody]_vars

NextDecode == CallDecodeUsing

SpecDecode == InitDecode /\ [][NextDecode]_vars

\* ------------------------------------------------- hooks at every status
\* Status codes inside, at the ends of and outside the ranges of the hooks.
HookStatuses == {-1, 0, 199, 200, 204, 299, 300, 399, 400, 404, 499, 500, 599, 600}
\* The codes OnStatus is built with.
HookCodes == {200, 404, 600}
Hook(k, c) == [type |-> "hook", hook |-> k, code |-> c]
AnyHooks ==
    {Hook(k, 0) : k \in HookKinds \ {"OnStatus"}} \cup {Hook("OnStatus", c) : c \in HookCodes}
HookLists == SeqsUpTo(AnyHooks, MaxTargets) \ {<<>>}

\* Lists of hooks handed to Decode and DecodeUsing on a JSON response of any
\* status whose body reads well, with a decoder that takes every receiver.
InitHooks ==
    /\ r \in {[StatusCode |-> s, ContentType |-> "application/json", Body |-> "raw",
                stream |-> st, buf |-> [data |-> <<>>, off |-> 0]] :
                  s \in HookStatuses, st \in {x \in StreamsOf({MaxBody}) : ~x.broken}}
    /\ decoder = [bad |-> {}]
    /\ args \in HookLists
    /\ InitCalls
    /\ client = DefaultClient
    /\ InitSends

NextHooks ==
    \/ CallDecode
    \/ CallDecodeUsing

SpecHooks == InitHooks /\ [][NextHooks]_vars

\* ---------------------------------------------------- the send: operations
\* Client.Send: allocates the Future, starts the goroutine and returns.
Send(i, rq, how, v) ==
    /\ pc[i] = "idle"
    /\ request' = [request EXCEPT ![i] = rq]
    /\ via' = [via EXCEPT ![i] = how]
    /\ target' = [target EXCEPT ![i] = v]
    /\ ftr' = [ftr EXCEPT ![i] = NoFuture]
    /\ pc' = [pc EXCEPT ![i] = "validate"]
    /\ UNCHANGED bodyVars
    /\ UNCHANGED <<client, loc, closes, resp, transportCalls, encoderCalls, waiting,
                   observed, hres>>

\* The caller builds a Request and calls c.Send(request).
SendRequest(i, rq) == Send(i, rq, "Send", NilTarget)

\* Get, Post, Put, Patch, Delete: build the Request and call c.Send(r); Get
\* has no body parameter.
CallHelper(i, verb, url, body, v) ==
    /\ verb = "Get" => body = "nil"
    /\ Send(i, [Method |-> VerbMethod(verb), URL |-> url, Headers |-> NilHeaders,
                Body |-> body, Encoder |-> NilEncoder], verb, v)

\* c.send returns (nil, err) before the request is dispatched.
Fail(i, step, err) ==
    /\ loc' = [loc EXCEPT ![i].ret = [rsp |-> NilPtr, err |-> err],
                          ![i].steps = Append(@, step)]
    /\ pc' = [pc EXCEPT ![i] = "return"]

\* c.send: request.validate().
Validate(i) ==
    /\ pc[i] = "validate"
    /\ IF validate(request[i]) /= NoErr
       THEN Fail(i, "validate", validate(request[i]))
       ELSE /\ loc' = [loc EXCEPT ![i].steps = Append(@, "validate")]
            /\ pc' = [pc EXCEPT ![i] = "resolve"]
    /\ UNCHANGED bodyVars
    /\ UNCHANGED <<client, request, via, target, ftr, closes, resp, transportCalls,
                   encoderCalls, waiting, observed, hres>>

\* c.send: the path is the request's URL, resolved against BaseURL when set.
ResolveURL(i) ==
    /\ pc[i] = "resolve"
    /\ IF client.BaseURL = ""
       THEN /\ loc' = [loc EXCEPT ![i].path = request[i].URL,
                                  ![i].steps = Append(@, "resolve")]
            /\ pc' = [pc EXCEPT ![i] = "prepare"]
       ELSE IF ~ParseOK(client.BaseURL)
            THEN Fail(i, "resolve", URLParseError(client.BaseURL))
            ELSE IF ~ParseOK(request[i].URL)
                 THEN Fail(i, "resolve", URLParseError(request[i].URL))
                 ELSE /\ loc' = [loc EXCEPT
                                   ![i].path = ResolveReference(client.BaseURL, request[i].URL),
                                   ![i].steps = Append(@, "resolve")]
                      /\ pc' = [pc EXCEPT ![i] = "prepare"]
    /\ UNCHANGED bodyVars
    /\ UNCHANGED <<client, request, via, target, ftr, closes, resp, transportCalls,
                   encoderCalls, waiting, observed, hres>>

\* c.send: request.prepareBody(c.DefaultEncoder).
PrepareBody(i) ==
    /\ pc[i] = "prepare"
    /\ LET pb == prepareBody(request[i], client.DefaultEncoder)
       IN /\ encoderCalls' = [encoderCalls EXCEPT ![i] = IF pb.encoded THEN @ + 1 ELSE @]
          /\ IF pb.err /= NoErr
             THEN Fail(i, "prepare", pb.err)
             ELSE /\ loc' = [loc EXCEPT ![i].reader = pb.reader,
                                        ![i].contentType = pb.contentType,
                                        ![i].steps = Append(@, "prepare")]
                  /\ pc' = [pc EXCEPT ![i] = "construct"]
    /\ UNCHANGED bodyVars
    /\ UNCHANGED <<client, request, via, target, ftr, closes, resp, transportCalls,
                   waiting, observed, hres>>

\* A send that sets Content-Type from the encoder whatever the caller set.
ConstructOverwrites(i) ==
    /\ pc[i] = "construct"
    /\ IF ~ParseOK(loc[i].path)
       THEN /\ Fail(i, "construct", URLParseError(loc[i].path))
            /\ UNCHANGED request
       ELSE LET aliased == ~request[i].Headers.isNil
                header == IF aliased THEN request[i].Headers ELSE HeaderMap(EmptyMap)
                set == loc[i].contentType /= ""
                final == IF set THEN HeaderSet(header, "Content-Type", loc[i].contentType)
                         ELSE header
            IN /\ loc' = [loc EXCEPT ![i].header = final,
                                     ![i].aliased = aliased,
                                     ![i].steps = Append(@, "construct")]
               /\ request' = IF aliased THEN [request EXCEPT ![i].Headers = final]
                             ELSE request
               /\ pc' = [pc EXCEPT ![i] = "dispatch"]
    /\ UNCHANGED bodyVars
    /\ UNCHANGED <<client, via, target, ftr, closes, resp, transportCalls, encoderCalls,
                   waiting, observed, hres>>

\* c.send: http.NewRequest, then the caller's Headers become req.Header (the
\* same map, not a copy) and Content-Type is set when the header has none.
Construct(i) ==
    /\ pc[i] = "construct"
    /\ IF ~ParseOK(loc[i].path)
       THEN /\ Fail(i, "construct", URLParseError(loc[i].path))
            /\ UNCHANGED request
       ELSE LET aliased == ~request[i].Headers.isNil
                header == IF aliased THEN request[i].Headers ELSE HeaderMap(EmptyMap)
                set == loc[i].contentType /= "" /\ HeaderGet(header, "Content-Type") = ""
                final == IF set THEN HeaderSet(header, "Content-Type", loc[i].contentType)
                         ELSE header
            IN /\ loc' = [loc EXCEPT ![i].header = final,
                                     ![i].aliased = aliased,
                                     ![i].steps = Append(@, "construct")]
               /\ request' = IF aliased THEN [request EXCEPT ![i].Headers = final]
                             ELSE request
               /\ pc' = [pc EXCEPT ![i] = "dispatch"]
    /\ UNCHANGED bodyVars
    /\ UNCHANGED <<client, via, target, ftr, closes, resp, transportCalls, encoderCalls,
                   waiting, observed, hres>>

\* c.Do: c.BaseClient.Do(req) is called and blocks the goroutine.
Dispatch(i) ==
    /\ pc[i] = "dispatch"
    /\ transportCalls' = [transportCalls EXCEPT ![i] = @ + 1]
    /\ loc' = [loc EXCEPT ![i].steps = Append(@, "dispatch")]
    /\ pc' = [pc EXCEPT ![i] = "inflight"]
    /\ UNCHANGED bodyVars
    /\ UNCHANGED <<client, request, via, target, ftr, closes, resp, encoderCalls, waiting,
                   observed, hres>>

\* A send that dispatches the request again when the transport fails.
TransportReturnRetries(i, out) ==
    /\ pc[i] = "inflight"
    /\ LET d == Do(client, out)
       IN /\ resp' = [resp EXCEPT ![i] = [Response |-> d.rsp, allocated |-> TRUE]]
          /\ loc' = [loc EXCEPT ![i].out = out,
                                ![i].ret = [rsp |-> Ref(i), err |-> d.err],
                                ![i].steps = Append(@, "status")]
    /\ pc' = [pc EXCEPT ![i] = IF out.err /= NoErr THEN "dispatch" ELSE "return"]
    /\ UNCHANGED bodyVars
    /\ UNCHANGED <<client, request, via, target, ftr, closes, transportCalls, encoderCalls,
                   waiting, observed, hres>>

\* BaseClient.Do returns out: c.Do validates the status and c.send wraps what
\* c.Do returned in a new Response.
TransportReturn(i, out) ==
    /\ pc[i] = "inflight"
    /\ LET d == Do(client, out)
       IN /\ resp' = [resp EXCEPT ![i] = [Response |-> d.rsp, allocated |-> TRUE]]
          /\ loc' = [loc EXCEPT ![i].out = out,
                                ![i].ret = [rsp |-> Ref(i), err |-> d.err],
                                ![i].steps = Append(@, "status")]
    /\ pc' = [pc EXCEPT ![i] = "return"]
    /\ UNCHANGED bodyVars
    /\ UNCHANGED <<client, request, via, target, ftr, closes, transportCalls, encoderCalls,
                   waiting, observed, hres>>

\* A goroutine that closes done as soon as the response is stored.
StoreResponseClosing(i) ==
    /\ pc[i] = "return"
    /\ ftr' = [ftr EXCEPT ![i].response = loc[i].ret.rsp, ![i].done = TRUE]
    /\ closes' = [closes EXCEPT ![i] = @ + 1]
    /\ pc' = [pc EXCEPT ![i] = "storeErr"]
    /\ UNCHANGED bodyVars
    /\ UNCHANGED <<client, request, via, target, loc, resp, transportCalls,
                   encoderCalls, waiting, observed, hres>>

\* The goroutine of Send: ftr.response, ftr.err = c.send(request), and then
\* the deferred close(done).
StoreResponse(i) ==
    /\ pc[i] = "return"
    /\ ftr' = [ftr EXCEPT ![i].response = loc[i].ret.rsp]
    /\ pc' = [pc EXCEPT ![i] = "storeErr"]
    /\ UNCHANGED bodyVars
    /\ UNCHANGED <<client, request, via, target, loc, closes, resp, transportCalls,
                   encoderCalls, waiting, observed, hres>>

\* A goroutine that stores the error of whichever send returned, its own or not.
StoreErrOfAnySend(i) ==
    /\ pc[i] = "storeErr"
    /\ \E j \in Sends :
          /\ pc[j] \in {"return", "storeErr", "close", "done"}
          /\ ftr' = [ftr EXCEPT ![i].err = loc[j].ret.err]
    /\ pc' = [pc EXCEPT ![i] = "close"]
    /\ UNCHANGED bodyVars
    /\ UNCHANGED <<client, request, via, target, loc, closes, resp, transportCalls,
                   encoderCalls, waiting, observed, hres>>

StoreErr(i) ==
    /\ pc[i] = "storeErr"
    /\ ftr' = [ftr EXCEPT ![i].err = loc[i].ret.err]
    /\ pc' = [pc EXCEPT ![i] = "close"]
    /\ UNCHANGED bodyVars
    /\ UNCHANGED <<client, request, via, target, loc, closes, resp, transportCalls,
                   encoderCalls, waiting, observed, hres>>

\* A goroutine whose close(done) is not deferred and is skipped on an error.
CloseDoneOnSuccess(i) ==
    /\ pc[i] = "close"
    /\ ftr' = [ftr EXCEPT ![i].done = loc[i].ret.err = NoErr]
    /\ closes' = [closes EXCEPT ![i] = IF loc[i].ret.err = NoErr THEN @ + 1 ELSE @]
    /\ pc' = [pc EXCEPT ![i] = "done"]
    /\ UNCHANGED bodyVars
    /\ UNCHANGED <<client, request, via, target, loc, resp, transportCalls, encoderCalls,
                   waiting, observed, hres>>

CloseDone(i) ==
    /\ pc[i] = "close"
    /\ ftr' = [ftr EXCEPT ![i].done = TRUE]
    /\ closes' = [closes EXCEPT ![i] = @ + 1]
    /\ pc' = [pc EXCEPT ![i] = "done"]
    /\ UNCHANGED bodyVars
    /\ UNCHANGED <<client, request, via, target, loc, resp, transportCalls, encoderCalls,
                   waiting, observed, hres>>

\* Future.Response: caller c reaches <-f.done on the Future Send gave it.
CallResponse(c, i) ==
    /\ waiting[c] = 0
    /\ pc[i] /= "idle"
    /\ via[i] = "Send"
    /\ waiting' = [waiting EXCEPT ![c] = i]
    /\ UNCHANGED bodyVars
    /\ UNCHANGED <<client, request, via, target, pc, loc, ftr, closes, resp, transportCalls,
                   encoderCalls, observed, hres>>

\* Future.Response: done is closed, the call returns f.response, f.err.
ReturnResponse(c) ==
    /\ waiting[c] /= 0
    /\ LET i == waiting[c]
       IN /\ ftr[i].done
          /\ observed' = [observed EXCEPT
                            ![i] = @ \cup {[rsp |-> ftr[i].response, err |-> ftr[i].err]}]
    /\ waiting' = [waiting EXCEPT ![c] = 0]
    /\ UNCHANGED bodyVars
    /\ UNCHANGED <<client, request, via, target, pc, loc, ftr, closes, resp, transportCalls,
                   encoderCalls, hres>>

\* Get, Post, Put, Patch, Delete after c.Send(r): Response() returns once done
\* is closed, and the helper decodes into v; dec is the behaviour of the
\* decoder inferDecoder picks.
HelperReturn(i, dec) ==
    /\ via[i] /= "Send"
    /\ ftr[i].done
    /\ ~hres[i].returned
    /\ LET hr == HelperResult(ftr[i].response, ftr[i].err, resp[i].Response, target[i], dec)
       IN /\ hres' = [hres EXCEPT ![i] = hr.out]
          /\ resp' = [resp EXCEPT ![i].Response = hr.h]
    /\ UNCHANGED bodyVars
    /\ UNCHANGED <<client, request, via, target, pc, loc, ftr, closes, transportCalls,
                   encoderCalls, waiting, observed>>

\* One send, made through Send or through a helper, on any client.
Pipeline == {1}
HelperTargets == {NilTarget, Value, [type |-> "hook", hook |-> "On4xx", code |-> 0]}

Init ==
    /\ client \in Clients
    /\ InitSends
    /\ InitNoBody

GoroutineStep(i) ==
    \/ Validate(i)
    \/ ResolveURL(i)
    \/ PrepareBody(i)
    \/ Construct(i)
    \/ Dispatch(i)
    \/ \E out \in TransportOutcomes : TransportReturn(i, out)
    \/ StoreResponse(i)
    \/ StoreErr(i)
    \/ CloseDone(i)

Next ==
    \/ \E i \in Pipeline, rq \in Requests : SendRequest(i, rq)
    \/ \E i \in Pipeline, verb \in Verbs, url \in {"users/1", "%zz"},
          body \in {"nil", "homer"}, v \in HelperTargets :
            CallHelper(i, verb, url, body, v)
    \/ \E i \in Pipeline : GoroutineStep(i)
    \/ \E c \in Callers, i \in Pipeline : CallResponse(c, i)
    \/ \E c \in Callers : ReturnResponse(c)
    \/ \E i \in Pipeline, dec \in {d \in Decoders : d.bad \subseteq {1}} :
          HelperReturn(i, dec)

Spec == Init /\ [][Next]_vars

\* The goroutine runs on, the transport call returns and a Response() call
\* whose channel is closed returns.
FairSpec ==
    /\ Spec
    /\ \A i \in Pipeline : WF_vars(GoroutineStep(i))
    /\ \A c \in Callers : WF_vars(ReturnResponse(c))

\* ------------------------------------------- the send: every kind of request
\* Method strings: the nine http.Method* constants and others, among them the
\* empty string and lower-case and mixed-case spellings.
Methods == {"GET", "HEAD", "POST", "PUT", "PATCH", "DELETE", "CONNECT", "OPTIONS", "TRACE",
            "", "get", "Post", "BREW", "GETS"}

AnyRequests ==
    {[Method |-> method, URL |-> u, Headers |-> h, Body |-> b, Encoder |-> enc] :
        method \in Methods,
        u \in {"users/1", "%zz"},
        h \in {NilHeaders, HeaderMap([k \in {"Accept"} |-> "*/*"]),
               HeaderMap([k \in {"Content-Type"} |-> "text/plain"]),
               HeaderMap([k \in {"Content-Type"} |-> ""])},
        b \in {"nil", "homer"},
        enc \in {NilEncoder, EncoderFormURL, EncoderFailing}}

\* Clients with and without a base URL, and with every kind of default encoder.
AnyEncoderClients ==
    {WithEncoder(WithBaseURL(DefaultClient, u), enc) :
        u \in {"", "http://example.com/api/"},
        enc \in {NilEncoder, EncoderJSON, EncoderFailing}}

InitRequest ==
    /\ client \in AnyEncoderClients
    /\ InitSends
    /\ InitNoBody

\* One send of any request, followed up to the call of the transport.
NextRequest ==
    \/ \E i \in Pipeline, rq \in AnyRequests : SendRequest(i, rq)
    \/ \E i \in Pipeline : Validate(i)
    \/ \E i \in Pipeline : ResolveURL(i)
    \/ \E i \in Pipeline : PrepareBody(i)
    \/ \E i \in Pipeline : Construct(i)
    \/ \E i \in Pipeline : Dispatch(i)

SpecRequest == InitRequest /\ [][NextRequest]_vars

\* ------------------------------------------------ the send: concurrent sends
\* Requests of concurrent sends: one without a body, one with an invalid
\* method, one with headers and an encoded body.
ConcurrentRequests ==
    {[Method |-> "GET", URL |-> "users/1", Headers |-> NilHeaders, Body |-> "nil",
      Encoder |-> NilEncoder],
     [Method |-> "BREW", URL |-> "users/1", Headers |-> NilHeaders, Body |-> "nil",
      Encoder |-> NilEncoder],
     [Method |-> "GET", URL |-> "users/1", Headers |-> HeaderMap([k \in {"Accept"} |-> "*/*"]),
      Body |-> "homer", Encoder |-> EncoderFormURL]}

\* What the transport returns to concurrent sends: an error, or a JSON
\* response of status 200 or 500 whose body reads well.
ConcurrentOutcomes ==
    {out \in TransportOutcomes :
        \/ out.err /= NoErr
        \/ /\ out.rsp.StatusCode \in {200, 500}
           /\ out.rsp.ContentType = "application/json"
           /\ ~out.rsp.stream.broken}

InitConcurrent ==
    /\ client \in {DefaultClient, WithBaseURL(DefaultClient, "http://example.com/api/")}
    /\ InitSends
    /\ InitNoBody

\* Every send may be issued at any time and the goroutines run in any order;
\* one caller reads the Futures, in any order and any number of times.
NextConcurrent ==
    \/ \E i \in Sends, rq \in ConcurrentRequests : SendRequest(i, rq)
    \/ \E i \in Sends : Validate(i)
    \/ \E i \in Sends : ResolveURL(i)
    \/ \E i \in Sends : PrepareBody(i)
    \/ \E i \in Sends : Construct(i)
    \/ \E i \in Sends : Dispatch(i)
    \/ \E i \in Sends, out \in ConcurrentOutcomes : TransportReturn(i, out)
    \/ \E i \in Sends : StoreResponse(i)
    \/ \E i \in Sends : StoreErr(i)
    \/ \E i \in Sends : CloseDone(i)
    \/ \E i \in Sends : CallResponse("c1", i)
    \/ ReturnResponse("c1")

SpecConcurrent == InitConcurrent /\ [][NextConcurrent]_vars

\* ---------------------------------------------------- claims on the Future
\* The (Response, error) pair c.send returned in the goroutine of send i.
Result(i) == [rsp |-> loc[i].ret.rsp, err |-> loc[i].ret.err]
Ran(i, step) == \E k \in 1 .. Len(loc[i].steps) : loc[i].steps[k] = step

CompletedOnce ==
    \A i \in Sends :
        /\ closes[i] <= 1
        /\ ftr[i].done <=> closes[i] = 1
        /\ ftr[i].done => [rsp |-> ftr[i].response, err |-> ftr[i].err] = Result(i)
        /\ observed[i] /= {} => pc[i] = "done"
        /\ observed[i] \subseteq {Result(i)}

\* C1: done is closed exactly once and only after both result fields are
\* stored, the fields are never written after that, and every Response() call
\* returns after the close with the pair the pipeline returned.
C1_FutureCompletesOnce ==
    /\ []CompletedOnce
    /\ [][\A i \in Sends : ftr[i].done => ftr'[i] = ftr[i]]_vars

\* Response() has returned the pair of a successful send to one caller while
\* a further Response() call on the same Future is under way.
C1_Witness ==
    \E i \in Sends, c \in Callers :
        /\ observed[i] = {Result(i)}
        /\ waiting[c] = i
        /\ loc[i].ret.err = NoErr

\* C2: Send itself makes no transport call; under fairness every Future that
\* Send returned is completed and every caller blocked in Response() returns.
C2_EveryFutureCompletes ==
    /\ [][\A i \in Sends : (pc[i] = "idle" /\ pc'[i] /= "idle") =>
            (pc'[i] = "validate" /\ transportCalls'[i] = 0 /\ ~ftr'[i].done)]_vars
    /\ \A i \in Sends : (pc[i] /= "idle") ~> ftr[i].done
    /\ \A c \in Callers : (waiting[c] /= 0) ~> (waiting[c] = 0)

\* A caller is blocked in Response() while the transport call is in flight.
C2_Witness ==
    \E i \in Sends, c \in Callers :
        /\ waiting[c] = i
        /\ pc[i] = "inflight"
        /\ ~ftr[i].done

\* ---------------------------------------------------- claims on the send
\* The transport round trip of send i succeeded.
RoundTripOK(i) == Ran(i, "status") /\ loc[i].out.err = NoErr
Rejected(i) ==
    /\ client.StatusValidator /= "nil"
    /\ ~RunValidator(client.StatusValidator, loc[i].out.rsp.StatusCode)

\* C5: after a successful round trip with status s the send fails exactly when
\* a validator is set and rejects s; the error is then the bad-status error of
\* s and the Response is non-nil with status s.
C5_BadStatusKeepsResponse ==
    \A i \in Sends :
        RoundTripOK(i) =>
            /\ loc[i].ret.err /= NoErr <=> Rejected(i)
            /\ client.StatusValidator = "nil" => loc[i].ret.err = NoErr
            /\ loc[i].ret.rsp = Ref(i)
            /\ resp[i].allocated
            /\ resp[i].Response.StatusCode = loc[i].out.rsp.StatusCode
            /\ Rejected(i) => loc[i].ret.err = BadStatusError(loc[i].out.rsp.StatusCode)

C5_Witness ==
    \E i \in Sends :
        /\ RoundTripOK(i)
        /\ loc[i].out.rsp.StatusCode = 500
        /\ ftr[i].done
        /\ ftr[i].err = BadStatusError(500)
        /\ ftr[i].response = Ref(i)
        /\ resp[i].Response.StatusCode = 500

\* C6: when the transport returns an error, the Response that c.send, the
\* Future and the per-verb helper return is nil.
C6_NoResponseOnTransportError ==
    \A i \in Sends :
        (Ran(i, "status") /\ loc[i].out.err /= NoErr) =>
            /\ loc[i].ret.rsp = NilPtr
            /\ ftr[i].done => ftr[i].response = NilPtr
            /\ hres[i].returned => hres[i].rsp = NilPtr

\* The body of the Response of send i has not been read.
BodyUntouched(i) ==
    \/ resp[i].Response = NilHTTP
    \/ /\ resp[i].Response.Body = "raw"
       /\ resp[i].Response.stream.reads = 0
       /\ resp[i].Response.stream.closes = 0

\* C7: a per-verb helper calls Decode exactly when the send returned no error
\* and v is not nil; after a failed send it returns the send's error and
\* leaves the body unread; a failed decode is returned with the Response.
C7_DecodeOnlyOnSuccess ==
    \A i \in Sends :
        hres[i].returned =>
            /\ hres[i].decodeCalled <=> (loc[i].ret.err = NoErr /\ target[i] /= NilTarget)
            /\ loc[i].ret.err /= NoErr =>
                  /\ hres[i].err = loc[i].ret.err
                  /\ hres[i].rsp = loc[i].ret.rsp
                  /\ BodyUntouched(i)
                  /\ hres[i].res = NoDecode
            /\ ~hres[i].decodeCalled => BodyUntouched(i) /\ hres[i].res.decoded = <<>>
            /\ hres[i].decodeCalled =>
                  /\ hres[i].err = hres[i].res.err
                  /\ hres[i].rsp = Ref(i)

\* A helper with a decode target has returned a bad-status error.
C7_Witness ==
    \E i \in Sends :
        /\ hres[i].returned
        /\ target[i] = Value
        /\ loc[i].ret.err = BadStatusError(404)
        /\ hres[i].err = BadStatusError(404)
        /\ BodyUntouched(i)

\* The request passes validation, URL resolution, body preparation and
\* request construction, in the words of the specification.
WellFormed(u) == u /= "%zz"
ReachesDispatch(c, rq) ==
    /\ rq.Method \in {"GET", "HEAD", "POST", "PUT", "PATCH", "DELETE", "CONNECT", "OPTIONS",
                      "TRACE"}
    /\ WellFormed(c.BaseURL)
    /\ WellFormed(rq.URL)
    /\ \/ rq.Body = "nil"
       \/ rq.Encoder /= NilEncoder /\ ~rq.Encoder.fails
       \/ rq.Encoder = NilEncoder /\ c.DefaultEncoder /= NilEncoder /\ ~c.DefaultEncoder.fails

\* C10: a send never makes more than one transport call; a finished send has
\* made exactly one when it reached dispatch and none when it failed before.
C10_OneTransportCall ==
    \A i \in Sends :
        /\ transportCalls[i] <= 1
        /\ Ran(i, "dispatch") <=> transportCalls[i] = 1
        /\ pc[i] \in {"return", "storeErr", "close", "done"} =>
              transportCalls[i] = IF ReachesDispatch(client, request[i]) THEN 1 ELSE 0

\* A send whose transport call failed has finished with that single call.
C10_Witness ==
    \E i \in Sends :
        /\ pc[i] = "done"
        /\ ftr[i].err = ErrTransport
        /\ transportCalls[i] = 1

\* ------------------------------------------------------ claims on the body
\* The caller has read the body through BodyBytes only, never through r.Body.
OnlyBodyBytes == last.op = "BodyBytes" /\ directRaw = 0 /\ directBuf = 0

C4_BodyReadableForever ==
    (last.op = "BodyBytes" /\ directRaw = 0 /\ ~r.stream.broken) =>
        last.bytes = r.stream.content

\* ------------------------------------------------- claims on DecodeUsing
\* The status ranges of the hooks, as the specification states them.
Matches(t, status) ==
    CASE t.hook = "On2xx" -> status \in 200 .. 299
      [] t.hook = "On4xx" -> status \in 400 .. 499
      [] t.hook = "On5xx" -> status \in 500 .. 599
      [] t.hook = "OnNon2xx" -> status \notin 200 .. 299
      [] t.hook = "OnStatus" -> status = t.code

\* Target t is passed over at this status: nil, or a hook that does not match.
Skipped(t, status) == t.type = "nil" \/ (t.type = "hook" /\ ~Matches(t, status))
NonMatchingHook(t, status) == t.type = "hook" /\ ~Matches(t, status)
DecodedTargets == {last.res.decoded[j].target : j \in 1 .. Len(last.res.decoded)}

\* The decoder is never invoked for a non-matching hook, its target is left
\* unchanged and the error returned is not that target's.
HooksSkipped ==
    \A k \in 1 .. Len(last.targets) :
        NonMatchingHook(last.targets[k], r.StatusCode) =>
            /\ k \notin DecodedTargets
            /\ last.res.vals[k] = Unset
            /\ last.res.err /= DecodeError(k)

AllNonMatching ==
    \A k \in 1 .. Len(last.targets) : NonMatchingHook(last.targets[k], r.StatusCode)

\* C8 as stated: DecodeUsing skips every non-matching hook, and a call whose
\* targets are all non-matching hooks returns nil.
C8_AllSkippedReturnsNil ==
    last.op = "DecodeUsing" =>
        /\ HooksSkipped
        /\ AllNonMatching => last.res.err = NoErr

\* C8 amended: DecodeUsing skips every non-matching hook, and a call whose
\* targets are all non-matching hooks returns what reading the body returned:
\* nil, or the read error of BodyBytes.
C8_SkippedHooksNoError ==
    last.op = "DecodeUsing" =>
        /\ HooksSkipped
        /\ AllNonMatching => last.res.err = last.bodyErr
        /\ (AllNonMatching /\ ~r.stream.broken) => last.res.err = NoErr

C8_Witness ==
    /\ last.op = "DecodeUsing"
    /\ Len(last.targets) = MaxTargets
    /\ AllNonMatching
    /\ last.res.err = NoErr
    /\ last.res.visited = [k \in 1 .. MaxTargets |-> k]

\* The targets whose decode fails: not skipped, and refused by the decoder.
Failing == {k \in 1 .. Len(last.targets) :
              ~Skipped(last.targets[k], r.StatusCode) /\ k \in decoder.bad}
FirstFailing == CHOOSE k \in Failing : \A j \in Failing : k <= j

\* C9: when target k is the first whose decode fails, DecodeUsing returns
\* target k's decode error, has evaluated the targets 1..k and no later one,
\* and has decoded exactly the non-skipped targets up to k, in order.
C9_FirstErrorStops ==
    (last.op = "DecodeUsing" /\ last.bodyErr = NoErr /\ Failing /= {}) =>
        LET k == FirstFailing
        IN /\ last.res.err = DecodeError(k)
           /\ last.res.visited = [j \in 1 .. k |-> j]
           /\ DecodedTargets = {j \in 1 .. k : ~Skipped(last.targets[j], r.StatusCode)}
           /\ \A i, j \in 1 .. Len(last.res.decoded) :
                 i < j => last.res.decoded[i].target < last.res.decoded[j].target
           /\ \A j \in 1 .. Len(last.targets) :
                 last.res.vals[j].set <=> (j < k /\ ~Skipped(last.targets[j], r.StatusCode))

C9_Witness ==
    /\ last.op = "DecodeUsing"
    /\ last.bodyErr = NoErr
    /\ Failing /= {}
    /\ FirstFailing > 1
    /\ FirstFailing < Len(last.targets)
    /\ last.res.vals[1].set
    /\ last.res.err = DecodeError(FirstFailing)
\* ------------------------------------------------ claims on the pipeline
\* The steps of c.send in the order of the specification.
StepOrder == <<"validate", "resolve", "prepare", "construct", "dispatch", "status">>
InOrder(i) == loc[i].steps = SubSeq(StepOrder, 1, Len(loc[i].steps))
RecognizedVerbs == {"GET", "HEAD", "POST", "PUT", "PATCH", "DELETE", "CONNECT", "OPTIONS",
                    "TRACE"}

\* C11: the steps of a send run in the order validate, resolve, prepare,
\* construct, dispatch, status and a send that failed ran no step after the
\* failing one; the encoder is never invoked for a request whose method is
\* invalid or whose URL is malformed, with or without a base URL.
C11_EncoderNeverRunsOnBadRequest ==
    \A i \in Sends :
        /\ InOrder(i)
        /\ (loc[i].ret.rsp = NilPtr /\ loc[i].ret.err /= NoErr) => ~Ran(i, "dispatch")
        /\ (request[i].Method \notin RecognizedVerbs \/ ~WellFormed(request[i].URL)) =>
              encoderCalls[i] = 0

\* Send i failed in this step, with this error, and ran no step after it.
FailedIn(i, step, err) ==
    /\ loc[i].steps /= <<>>
    /\ loc[i].steps = SubSeq(StepOrder, 1, Len(loc[i].steps))
    /\ loc[i].steps[Len(loc[i].steps)] = step
    /\ loc[i].ret = [rsp |-> NilPtr, err |-> err]
    /\ pc[i] \notin {"validate", "resolve", "prepare", "construct", "dispatch", "inflight"}
\* Send i went through this step without an error.
Passed(i, step) == Ran(i, step) /\ ~\E err \in {loc[i].ret.err} \ {NoErr} : FailedIn(i, step, err)

\* C12: validate returns no error for each of the nine recognized verbs and
\* the invalid-method error of the method for every other string, the empty
\* string and lower-case spellings among them.
C12_ValidateNineVerbs ==
    \A i \in Sends :
        /\ validate(request[i]) =
              IF request[i].Method \in RecognizedVerbs THEN NoErr
              ELSE InvalidMethodError(request[i].Method)
        /\ Ran(i, "validate") =>
              IF request[i].Method \in RecognizedVerbs
              THEN Passed(i, "validate")
              ELSE FailedIn(i, "validate", InvalidMethodError(request[i].Method))

\* A request with the lower-case method get was refused by validate.
C12_Witness ==
    \E i \in Sends :
        /\ request[i].Method = "get"
        /\ FailedIn(i, "validate", InvalidMethodError("get"))

\* The encoder of the two-level lookup: the request's, else the client's.
LookupEncoder(c, rq) == IF rq.Encoder /= NilEncoder THEN rq.Encoder ELSE c.DefaultEncoder

\* C13: with a nil body prepareBody returns no stream, no content type and no
\* error and invokes no encoder; with a body it uses the request's encoder,
\* else the client's default, fails with the configuration error when neither
\* is set and returns the encoder's error when encoding fails.
C13_TwoLevelEncoderLookup ==
    \A i \in Sends :
        LET rq == request[i]
            enc == LookupEncoder(client, rq)
            pb == prepareBody(rq, client.DefaultEncoder)
        IN /\ rq.Body = "nil" =>
                 pb = [reader |-> FALSE, contentType |-> "", err |-> NoErr, encoded |-> FALSE]
           /\ (rq.Body /= "nil" /\ enc = NilEncoder) => pb.err = ErrNoEncoder /\ ~pb.encoded
           /\ (rq.Body /= "nil" /\ enc /= NilEncoder) =>
                 /\ pb.encoded
                 /\ pb.err = IF enc.fails THEN ErrEncode ELSE NoErr
                 /\ ~enc.fails => pb.reader /\ pb.contentType = enc.contentType
           /\ pb.err /= NoErr => ~pb.reader /\ pb.contentType = ""
           /\ Ran(i, "prepare") =>
                 /\ encoderCalls[i] = IF pb.encoded THEN 1 ELSE 0
                 /\ IF pb.err /= NoErr
                    THEN FailedIn(i, "prepare", pb.err)
                    ELSE /\ Passed(i, "prepare")
                         /\ loc[i].reader = pb.reader
                         /\ loc[i].contentType = pb.contentType

\* A body was encoded by the client's default encoder, the request having none.
C13_Witness ==
    \E i \in Sends :
        /\ request[i].Body /= "nil"
        /\ request[i].Encoder = NilEncoder
        /\ client.DefaultEncoder = EncoderJSON
        /\ Passed(i, "prepare")
        /\ encoderCalls[i] = 1
        /\ loc[i].reader
        /\ loc[i].contentType = EncoderJSON.contentType

\* The Content-Type of the request NewRequest and the header steps of send i
\* hand to the transport, given the caller's headers as they were before.
ContentTypeRule(i) ==
    LET callers == HeaderGet(request[i].Headers, "Content-Type")
        encoded == request[i].Body /= "nil"
        sent == loc'[i].header
    IN /\ callers /= "" => HeaderGet(sent, "Content-Type") = callers
       /\ (callers = "" /\ encoded) =>
             HeaderGet(sent, "Content-Type") = LookupEncoder(client, request[i]).contentType
       /\ (callers = "" /\ ~encoded) => HeaderGet(sent, "Content-Type") = ""
       /\ ("Content-Type" \notin DOMAIN request[i].Headers.m /\ ~encoded) =>
             "Content-Type" \notin DOMAIN sent.m

\* C14: the dispatched request carries the caller's Content-Type when the
\* caller set a non-empty one, else the encoder's declared content type when
\* a body was encoded, else none; dispatching leaves the header as built.
C14_CallerContentTypeWins ==
    [][\A i \in Sends :
          /\ (pc[i] = "construct" /\ pc'[i] = "dispatch") => ContentTypeRule(i)
          /\ pc[i] = "dispatch" => loc'[i].header = loc[i].header]_vars

\* A request with an encoded body was dispatched with the caller's Content-Type.
C14_Witness ==
    \E i \in Sends :
        /\ Ran(i, "dispatch")
        /\ loc[i].contentType = EncoderFormURL.contentType
        /\ HeaderGet(loc[i].header, "Content-Type") = "text/plain"

\* --------------------------------------------------- claims on the hooks
\* The targets a hook is built with: anything but nil.
NonNilTargets == {Value} \cup AnyHooks
\* The call decoded into target k.
DecodedInto(k) == last.res.vals[k].set

\* C15: at every status s each hook yields its target v exactly when s is in
\* the hook's range (200..299, 400..499, 500..599, outside 200..299, equal to
\* c) and nil otherwise; a call with hooks decodes into exactly the targets
\* whose hook matches and a skipped hook gives no error.
C15_HooksYieldInRangeOnly ==
    LET s == r.StatusCode
    IN /\ \A v \in NonNilTargets \cup {NilTarget} :
             /\ On2xx(v, s) = IF s \in 200 .. 299 THEN v ELSE NilTarget
             /\ On4xx(v, s) = IF s \in 400 .. 499 THEN v ELSE NilTarget
             /\ On5xx(v, s) = IF s \in 500 .. 599 THEN v ELSE NilTarget
             /\ OnNon2xx(v, s) = IF s \notin 200 .. 299 THEN v ELSE NilTarget
             /\ \A c \in HookCodes : OnStatus(c, v, s) = IF s = c THEN v ELSE NilTarget
       /\ last.op \in {"Decode", "DecodeUsing"} =>
             /\ last.res.err = NoErr
             /\ \A k \in 1 .. Len(last.targets) :
                   DecodedInto(k) <=> Matches(last.targets[k], s)

\* At status 600 a call skipped On5xx and decoded into OnNon2xx's target.
C15_Witness ==
    /\ last.op = "DecodeUsing"
    /\ r.StatusCode = 600
    /\ Len(last.targets) >= 2
    /\ last.targets[1] = Hook("On5xx", 0)
    /\ last.targets[2] = Hook("OnNon2xx", 0)
    /\ ~DecodedInto(1)
    /\ DecodedInto(2)

Yields(x) == x /= NilTarget
Count(S) == Cardinality(S)

\* C20: at every status at most one of On2xx(a), On4xx(b), On5xx(c) yields a
\* target and exactly one of On2xx(a), OnNon2xx(b) does; Decode with the
\* targets On2xx(a), On4xx(b), On5xx(c) decodes into at most one of them.
C20_RangeHooksExclusive ==
    LET s == r.StatusCode
    IN /\ \A a, b, c \in NonNilTargets :
             /\ Count({h \in {<<1, On2xx(a, s)>>, <<2, On4xx(b, s)>>, <<3, On5xx(c, s)>>} :
                         Yields(h[2])}) <= 1
             /\ Yields(On2xx(a, s)) /= Yields(OnNon2xx(b, s))
       /\ (last.op = "Decode"
             /\ last.targets = <<Hook("On2xx", 0), Hook("On4xx", 0), Hook("On5xx", 0)>>) =>
               /\ Count({k \in 1 .. 3 : DecodedInto(k)}) <= 1
               /\ Len(last.res.decoded) <= 1

\* Decode(On2xx(a), On4xx(b), On5xx(c)) at status 500 decoded into c only.
C20_Witness ==
    /\ last.op = "Decode"
    /\ last.targets = <<Hook("On2xx", 0), Hook("On4xx", 0), Hook("On5xx", 0)>>
    /\ r.StatusCode = 500
    /\ ~DecodedInto(1)
    /\ ~DecodedInto(2)
    /\ DecodedInto(3)

\* ------------------------------------- claims on decoding and the body, II
\* The positions of the targets of the last call that are not skipped, in
\* argument order.
NonSkipped ==
    SelectSeq([k \in 1 .. Len(last.targets) |-> k],
              LAMBDA k : ~Skipped(last.targets[k], r.StatusCode))

\* C16: a DecodeUsing call that returns nil has invoked the decoder once for
\* each non-skipped target, in argument order; every invocation of any call
\* receives the complete body of the response; however many calls are made,
\* the transport stream is read at most once.
C16_OncePerTargetCompleteBody ==
    last.op = "DecodeUsing" =>
        /\ r.stream.reads <= 1
        /\ last.res.err = NoErr =>
              [j \in 1 .. Len(last.res.decoded) |-> last.res.decoded[j].target] = NonSkipped
        /\ \A j \in 1 .. Len(last.res.decoded) :
              last.res.decoded[j].body = r.stream.content

\* C18: once Send has been handed the Request, no step of the send changes
\* its Method, URL, Body, Encoder or Headers.
C18_RequestUnchanged ==
    [][\A i \in Sends : pc[i] /= "idle" => request'[i] = request[i]]_vars

\* C19: on a Response whose stream fails while it is read, and whose body the
\* caller never reads directly, no BodyBytes, BodyString or Decode* call
\* returns nil with bytes other than the full content of the stream, and no
\* call hands such bytes to the decoder.
C19_NoTruncatedBodyAfterFailedRead ==
    (r.stream.broken /\ directRaw = 0 /\ directBuf = 0 /\ last.op /= "none") =>
        /\ last.res.err = NoErr => last.bytes = r.stream.content
        /\ \A j \in 1 .. Len(last.res.decoded) :
              last.res.decoded[j].body = r.stream.content

\* ---------------------------------------------- claims on concurrent sends
\* What the pipeline of send i returns for its own Request, on this client,
\* given what the transport returned to its own call.
OwnResult(i) ==
    LET rq == request[i]
        pb == prepareBody(rq, client.DefaultEncoder)
        path == IF client.BaseURL = "" THEN rq.URL ELSE ResolveReference(client.BaseURL, rq.URL)
    IN IF validate(rq) /= NoErr THEN [rsp |-> NilPtr, err |-> validate(rq)]
       ELSE IF client.BaseURL /= "" /\ ~ParseOK(client.BaseURL)
            THEN [rsp |-> NilPtr, err |-> URLParseError(client.BaseURL)]
       ELSE IF client.BaseURL /= "" /\ ~ParseOK(rq.URL)
            THEN [rsp |-> NilPtr, err |-> URLParseError(rq.URL)]
       ELSE IF pb.err /= NoErr THEN [rsp |-> NilPtr, err |-> pb.err]
       ELSE IF ~ParseOK(path) THEN [rsp |-> NilPtr, err |-> URLParseError(path)]
       ELSE [rsp |-> Ref(i), err |-> Do(client, loc[i].out).err]

EachItsOwnResult ==
    \A i \in Sends :
        /\ ftr[i].done =>
              /\ [rsp |-> ftr[i].response, err |-> ftr[i].err] = OwnResult(i)
              /\ ftr[i].response = Ref(i) => resp[i].Response = Do(client, loc[i].out).rsp
        /\ observed[i] \subseteq {OwnResult(i)}

\* C17: under every interleaving of the sends issued on one Client, each
\* Future completes with the result of the pipeline of its own Request, every
\* Response() call on it returns that result, and no step of any send changes
\* the Client's configuration.
C17_ConcurrentSendsIndependent ==
    /\ []EachItsOwnResult
    /\ [][client' = client]_vars

\* One send has completed with a bad-status error of its own and a caller has
\* read it, while another send, of another Request, is still in flight.
C17_Witness ==
    \E i, j \in Sends :
        /\ i /= j
        /\ request[i] /= request[j]
        /\ pc[j] = "inflight"
        /\ ftr[i].done
        /\ ftr[i].err = BadStatusError(500)
        /\ observed[i] = {OwnResult(i)}
====
